---- MODULE Spec2Model ----
(***************************************************************************)
(* A model of WeatherAPIClient (src/api/weather_api_client.py): the        *)
(* transport _make_request with its two retry layers (the urllib3 Retry    *)
(* mounted on the session and the tenacity decorator), the three           *)
(* accessors, the extraction functions, and the parsing and validation of  *)
(* humidity texts, the client's session from construction to close; and of *)
(* the page objects that read the same forecast from the application       *)
(* (src/pages/base_page.py, src/pages/nine_day_forecast_page.py).          *)
(***************************************************************************)
EXTENDS Integers, Sequences, FiniteSets, TLC

VARIABLES
    cfg,          \* the client's configuration, read once in __init__
    pc,           \* "idle" | "body" (the body of _make_request starts) |
                  \* "send" (an HTTP attempt is in flight) | "done"
    accessor,     \* the accessor whose call is running or has finished
    tAttempt,     \* tenacity: attempt_number of the running _make_request body
    uTotal,       \* urllib3: Retry.total left for the running session.get
    uErrs,        \* urllib3: len(Retry.history) of the running session.get
    bodyCalls,    \* how often the body of _make_request ran in this call
    httpAttempts, \* HTTP requests put on the wire in this call
    delays,       \* delays[n]: the time slept after failed HTTP attempt n
    hist,         \* observer: the one class of outcome all attempts so far had
    seen2xx,      \* observer: some attempt of this call was answered with a 2xx
    final,        \* observer: the outcome of the attempt that ended the call
    result,       \* what _make_request returned or raised
    accResult,    \* what the accessor returned
    xpc,          \* extraction: "off" | "start" | "done"
    xDate,        \* extraction: the date argument
    xData,        \* extraction: the forecast_data argument (None: not supplied)
    xFetched,     \* extraction: what get_nine_day_forecast returned, if called
    xFetches,     \* extraction: the number of get_nine_day_forecast calls
    xResult,      \* extraction: the value returned
    hpc,          \* humidity: "off" | "start" | "done"
    hNow,         \* humidity: the date datetime.now() gives
    hOffset,      \* humidity: the day_offset argument
    hResult,      \* humidity: what extract_humidity_for_day_offset gave
    ppc,          \* text: "off" | "start" | "parsed" | "validated" |
                  \* "extracted"
    pSource,      \* text: how the text argument was written (its form and
                  \* the two integers in it)
    pText,        \* text: the text argument (a str, or None)
    pExpMin,      \* text: the expected_min argument of the validation
    pExpMax,      \* text: the expected_max argument of the validation
    pParsed,      \* text: what parse_humidity_from_text gave
    pValid,       \* text: what validate_humidity_range gave
    pExtracted,   \* text: what the page's extract_humidity_from_text gave
    lScope,       \* session: "constructed" | "with" (in the body of a with
                  \* statement) | "left" | "fixture" (yielded by the
                  \* api_client fixture) | "torndown"
    lSession,     \* session: self.session (sessions are numbered as created)
    lSessions,    \* session: the number of requests.Session() made
    lUsed,        \* session: the session the last session.get went to, or 0
    lCloses,      \* session: the calls of close() so far
    lBodyExc,     \* session: the exception that ended the with body, or ""
    lPropagated,  \* session: the exception that left the with statement
    bMethod,      \* page: the method of the page object that was called
    bpc,          \* page: "off" | "start" | the place in the method | "done"
    bArg,         \* page: retries, max_swipes or day_offset
    bAttempt,     \* page: the loop variable attempt
    bLog,         \* page: what the method did so far, call by call
    bItems,       \* page: the forecast items that get_all_forecast_items gave
    bResult       \* page: what the method returned or raised

tvars == <<cfg, pc, accessor, tAttempt, uTotal, uErrs, bodyCalls, httpAttempts,
           delays, hist, seen2xx, final, result, accResult>>

xvars == <<xpc, xDate, xData, xFetched, xFetches, xResult>>

hvars == <<hpc, hNow, hOffset, hResult>>

pvars == <<ppc, pSource, pText, pExpMin, pExpMax, pParsed, pValid, pExtracted>>

lvars == <<lScope, lSession, lSessions, lUsed, lCloses, lBodyExc, lPropagated>>

bvars == <<bMethod, bpc, bArg, bAttempt, bLog, bItems, bResult>>

vars == <<tvars, xvars, hvars, pvars, lvars, bvars>>

----------------------------------------------------------------------------
(* Bounds of the model. *)

\* the largest configured retry_count that is explored (the default is 3)
MaxRetryCount == 3

\* the value of a Retry-After header, in seconds, when a response carries one
RetryAfterSecs == 12

\* the longest weatherForecast list of a payload
MaxEntries == 2

\* the day offsets explored are -MaxOffset .. MaxOffset
MaxOffset == 2

\* the integers written into the texts of the given forms are 0 .. MaxValue
MaxValue == 200

\* the longest of the texts made of every combination of characters
MaxTextLen == 4

\* the most calls of close() that the tests make themselves
MaxCloses == 2

\* the retries and max_swipes arguments explored are 0 .. MaxLoops
MaxLoops == 3

\* the most forecast items on the screen; the day offsets explored are
\* -(MaxItems + 1) .. MaxItems + 1
MaxItems == 3

----------------------------------------------------------------------------
(* Values. *)

Min(a, b) == IF a < b THEN a ELSE b

Max(a, b) == IF a > b THEN a ELSE b

RECURSIVE Pow(_, _)
Pow(b, e) == IF e = 0 THEN 1 ELSE b * Pow(b, e - 1)

\* A JSON value as Python sees it: its type, its len() and, for an object,
\* the list under "weatherForecast".
Json(t, size, wf) == [t |-> t, size |-> size, wf |-> wf]

\* Python's None; response.json() gives the same value for the body "null".
None == Json("null", 0, <<>>)

\* bool(v) for a JSON value
Truthy(v) == v.t /= "null" /\ v.size > 0

\* The bodies a 2xx response may carry in the transport specification.
ResponseValues ==
    { Json("object", 1, <<>>), Json("object", 0, <<>>),
      Json("array", 1, <<>>), Json("array", 0, <<>>), None }

Accessors == {"nine_day_forecast", "current_weather", "weather_warning"}

\* The error statuses a server answers with in the model.
Statuses == {404, 413, 429, 501, 503}

\* Transport failures that urllib3 sees as connection or read errors.
NetworkFailures == {"timeout", "connection", "dns"}

NoResult == [kind |-> "none", exc |-> "", status |-> 0, value |-> None]

Returned(v) == [kind |-> "json", exc |-> "", status |-> 0, value |-> v]

Raised(exc, status) == [kind |-> "error", exc |-> exc, status |-> status, value |-> None]

\* What one HTTP attempt ends in: a response (its status, the seconds of its
\* Retry-After header or 0, its parsed body when it is JSON) or a failure.
Outcome(kind, status, ra, body) ==
    [kind |-> kind, status |-> status, retryAfter |-> ra, body |-> body]

NoOutcome == Outcome("none", 0, 0, None)

----------------------------------------------------------------------------
(* The configuration read in __init__. *)

Configs ==
    [ max_retries    : 0..MaxRetryCount,   \* config.api.retry_count
      retry_delay    : {1, 3},             \* api.retry.delay of the YAML file
      backoff_factor : {1, 2},             \* api.retry.backoff_factor
      url_ok         : BOOLEAN ]           \* base_url + endpoint is a valid URL

----------------------------------------------------------------------------
(* The urllib3 Retry object of _create_session. *)

status_forcelist == {500, 502, 503, 504, 429}

\* urllib3's Retry.RETRY_AFTER_STATUS_CODES, used because the Retry object is
\* built with respect_retry_after_header left at its default (True)
RETRY_AFTER_STATUS_CODES == {413, 429, 503}

\* Retry.is_retry(method, status_code, has_retry_after) for GET
IsRetry(status, ra, total) ==
    \/ status \in status_forcelist
    \/ total /= 0 /\ ra > 0 /\ status \in RETRY_AFTER_STATUS_CODES

\* Retry.get_backoff_time() with n consecutive errors in the history
BackoffTime(n) ==
    IF n <= 1 THEN 0 ELSE Min(120, cfg.backoff_factor * Pow(2, n - 1))

\* Retry.sleep(response): the Retry-After header wins over the backoff
UrllibSleep(ra, n) == IF ra > 0 THEN ra ELSE BackoffTime(n)

----------------------------------------------------------------------------
(* The tenacity decorator of _make_request. *)

stop_after_attempt == 3

wait_multiplier == 1

wait_min == 1

wait_max == 10

\* wait_exponential(multiplier, min, max) after attempt number n
WaitExponential(n) ==
    Max(Max(0, wait_min), Min(wait_multiplier * Pow(2, n - 1), wait_max))

\* Mutant: retry_if_exception_type(requests.RequestException)
TenacityRetriesRequestException(exc) ==
    exc \in {"ConnectTimeout", "ConnectionError", "ChunkedEncodingError",
             "MissingSchema", "HTTPError", "RetryError", "JSONDecodeError"}

\* Mutant: ValueError added to the retried exception types
TenacityRetriesValueError(exc) ==
    exc \in {"ConnectTimeout", "ConnectionError", "JSONDecodeError", "MissingSchema"}

\* retry_if_exception_type((requests.Timeout, requests.ConnectionError))
TenacityRetries(exc) == exc \in {"ConnectTimeout", "ConnectionError"}

\* what requests raises when urllib3 gives up on a network failure
NetworkException(kind) ==
    IF kind = "timeout" THEN "ConnectTimeout" ELSE "ConnectionError"

----------------------------------------------------------------------------
(* The accessors. *)

\* get_nine_day_forecast logs list(data.keys()) when data is truthy; the
\* other two accessors only test data. Any exception becomes None.
AccessorReturn(acc, res) ==
    IF res.kind = "error" THEN None
    ELSE IF acc = "nine_day_forecast" /\ Truthy(res.value) /\ res.value.t /= "object"
         THEN None
         ELSE res.value

----------------------------------------------------------------------------
(* History bookkeeping (observers, not program state). *)

\* The class of an outcome: a 503, a 4xx other than 429, a timeout or a
\* connection failure, a failed name lookup, a 2xx with or without a JSON
\* body, a body cut short, any other status.
OutcomeClass(o) ==
    IF o.kind = "status" /\ o.status = 503 THEN "503"
    ELSE IF o.kind = "status" /\ o.status \in 400..499 /\ o.status /= 429 THEN "4xx"
    ELSE IF o.kind = "status" THEN "status"
    ELSE IF o.kind \in {"timeout", "connection"} THEN "net"
    ELSE o.kind

\* hist is "none" before the first attempt, the class when every attempt so
\* far was of one class, and "mixed" otherwise.
HistAfter(h, o) ==
    IF h = "none" \/ h = OutcomeClass(o) THEN OutcomeClass(o) ELSE "mixed"

\* the bookkeeping of one HTTP attempt with outcome o
Observe(o) ==
    /\ httpAttempts' = httpAttempts + 1
    /\ hist' = HistAfter(hist, o)
    /\ seen2xx' = (seen2xx \/ o.kind \in {"ok", "badjson"})

----------------------------------------------------------------------------
(* Actions. *)

\* Mutant: every request opens a session of its own
SessionPerRequest(session, sessions) ==
    [session |-> sessions + 1, sessions |-> sessions + 1]

\* self.session.get(...), line 84: the request goes to the session that
\* self.session holds, and no session is made
SessionGet(session, sessions) == [session |-> session, sessions |-> sessions]

\* The state after WeatherAPIClient() with the configuration c: __init__
\* has called _create_session once (line 40).
TransportInit(c) ==
    /\ cfg = c
    /\ pc = "idle"
    /\ accessor = "nine_day_forecast"
    /\ tAttempt = 0
    /\ uTotal = 0
    /\ uErrs = 0
    /\ bodyCalls = 0
    /\ httpAttempts = 0
    /\ delays = <<>>
    /\ hist = "none"
    /\ seen2xx = FALSE
    /\ final = NoOutcome
    /\ result = NoResult
    /\ accResult = None
    /\ lScope = "constructed"
    /\ lSession = 1
    /\ lSessions = 1
    /\ lUsed = 0
    /\ lCloses = <<>>
    /\ lBodyExc = ""
    /\ lPropagated = ""

\* No extraction call is modelled in the transport specification.
ExtractionOff ==
    /\ xpc = "off"
    /\ xDate = [y |-> 2026, m |-> 11, d |-> 3]
    /\ xData = None
    /\ xFetched = None
    /\ xFetches = 0
    /\ xResult = None

\* What a function that gives a str may give: kind "str" with the characters
\* of the str, kind "none" for None, or the name of the exception it raised.
\* A str is the sequence of its characters, each a string of its own; a
\* character outside ASCII is written as its code point ("U+2013").
TextResult(kind, text) == [kind |-> kind, text |-> text]

NoText == TextResult("none", <<>>)

StrOf(text) == TextResult("str", text)

\* What parse_humidity_from_text gives: kind "pair" with the tuple
\* (min, max), kind "none" for None, or the name of the exception raised;
\* "unset" before it has run.
ParseResult(kind, min, max) == [kind |-> kind, min |-> min, max |-> max]

NotParsed == ParseResult("unset", 0, 0)

NoPair == ParseResult("none", 0, 0)

Pair(min, max) == ParseResult("pair", min, max)

\* What validate_humidity_range gives: kind "bool" with the value returned,
\* or the name of the exception raised; "unset" before it has run.
ValidResult(kind, value) == [kind |-> kind, value |-> value]

NotValidated == ValidResult("unset", FALSE)

\* An Optional[int] argument: given with a value, or None.
Expected(given, value) == [given |-> given, value |-> value]

NotGiven == Expected(FALSE, 0)

\* No humidity extraction is modelled in this specification.
HumidityOff ==
    /\ hpc = "off"
    /\ hNow = [y |-> 2026, m |-> 11, d |-> 3]
    /\ hOffset = 0
    /\ hResult = NoText

\* How a text was written: its form, and the integers a and b in it.
Source(form, a, b) == [form |-> form, a |-> a, b |-> b]

\* No parsing or validation is modelled in this specification.
TextOff ==
    /\ ppc = "off"
    /\ pSource = Source("none", 0, 0)
    /\ pText = NoText
    /\ pExpMin = NotGiven
    /\ pExpMax = NotGiven
    /\ pParsed = NotParsed
    /\ pValid = NotValidated
    /\ pExtracted = NoText

\* what a method of a page object returned or raised
PageResult(kind, value) == [kind |-> kind, value |-> value]

NoPageResult == PageResult("unset", "")

\* no method of a page object is called
PageOff ==
    /\ bMethod = ""
    /\ bpc = "off"
    /\ bArg = 0
    /\ bAttempt = 0
    /\ bLog = <<>>
    /\ bItems = <<>>
    /\ bResult = NoPageResult

Init ==
    /\ \E c \in Configs : TransportInit(c)
    /\ PageOff
    /\ ExtractionOff
    /\ HumidityOff
    /\ TextOff

\* Mutant: session.get blocks for ever after its last attempt (no timeout),
\* so that _make_request never returns to the accessor
FinishNever(res, o) ==
    /\ pc' = "blocked"
    /\ final' = o
    /\ result' = res
    /\ accResult' = None
    /\ UNCHANGED <<tAttempt, bodyCalls, uTotal, uErrs, delays>>

\* _make_request ends after outcome o: it returned or raised res, and the
\* accessor that called it returns.
Finish(res, o) ==
    /\ pc' = "done"
    /\ final' = o
    /\ result' = res
    /\ accResult' = AccessorReturn(accessor, res)
    /\ UNCHANGED <<tAttempt, bodyCalls, uTotal, uErrs, delays>>

\* The body of _make_request re-raises exc (lines 87-101) after outcome o.
\* tenacity runs the body again when the retry predicate holds and
\* stop_after_attempt is not reached, after sleeping wait_exponential; when
\* it is reached tenacity raises its own RetryError; any other exception
\* goes to the caller as it is.
BodyRaises(exc, status, o) ==
    IF TenacityRetries(exc)
    THEN IF tAttempt < stop_after_attempt
         THEN /\ delays' = Append(delays, WaitExponential(tAttempt))
              /\ tAttempt' = tAttempt + 1
              /\ bodyCalls' = bodyCalls + 1
              /\ uTotal' = cfg.max_retries
              /\ uErrs' = 0
              /\ pc' = "body"
              /\ UNCHANGED <<final, result, accResult>>
         ELSE Finish(Raised("tenacity.RetryError", status), o)
    ELSE Finish(Raised(exc, status), o)

\* urllib3 handles a failed attempt (Retry.increment, then Retry.sleep):
\* it sends again while Retry.total is not used up, else it gives up with
\* MaxRetryError, which requests raises as exc.
UrllibRetries(exc, status, o) ==
    IF uTotal - 1 >= 0
    THEN /\ uTotal' = uTotal - 1
         /\ uErrs' = uErrs + 1
         /\ delays' = Append(delays, UrllibSleep(o.retryAfter, uErrs + 1))
         /\ UNCHANGED <<pc, final, result, accResult, tAttempt, bodyCalls>>
    ELSE BodyRaises(exc, status, o)

\* An accessor calls _make_request.
Call(acc) ==
    /\ pc \in {"idle", "done"}
    /\ accessor' = acc
    /\ tAttempt' = 1
    /\ bodyCalls' = 1
    /\ uTotal' = cfg.max_retries
    /\ uErrs' = 0
    /\ httpAttempts' = 0
    /\ delays' = <<>>
    /\ hist' = "none"
    /\ seen2xx' = FALSE
    /\ final' = NoOutcome
    /\ pc' = "body"
    /\ result' = NoResult
    /\ accResult' = None
    /\ UNCHANGED cfg
    /\ UNCHANGED <<xvars, hvars, pvars, lvars, bvars>>

\* The body of _make_request runs up to session.get, which prepares the
\* request before it sends it: a malformed URL raises MissingSchema (a
\* RequestException and a ValueError) with nothing sent.
BodyStart ==
    /\ pc = "body"
    /\ IF cfg.url_ok
       THEN /\ pc' = "send"
            /\ UNCHANGED <<tAttempt, bodyCalls, uTotal, uErrs, delays, final,
                           result, accResult>>
       ELSE BodyRaises("MissingSchema", 0, NoOutcome)
    /\ LET got == SessionGet(lSession, lSessions)
       IN  /\ lSession' = got.session
           /\ lSessions' = got.sessions
           /\ lUsed' = got.session
    /\ UNCHANGED <<lScope, lCloses, lBodyExc, lPropagated>>
    /\ UNCHANGED <<cfg, accessor, httpAttempts, hist, seen2xx>>
    /\ UNCHANGED <<xvars, hvars, pvars, bvars>>

\* A 2xx response whose body is valid JSON: response.json() is returned.
RespondJson(v) ==
    /\ pc = "send"
    /\ Observe(Outcome("ok", 200, 0, v))
    /\ Finish(Returned(v), Outcome("ok", 200, 0, v))
    /\ UNCHANGED <<cfg, accessor>>
    /\ UNCHANGED <<xvars, hvars, pvars, lvars, bvars>>

\* A 2xx response whose body is not JSON: response.json() raises
\* JSONDecodeError, a RequestException and a ValueError; it is re-raised.
RespondBadJson ==
    /\ pc = "send"
    /\ Observe(Outcome("badjson", 200, 0, None))
    /\ BodyRaises("JSONDecodeError", 0, Outcome("badjson", 200, 0, None))
    /\ UNCHANGED <<cfg, accessor>>
    /\ UNCHANGED <<xvars, hvars, pvars, lvars, bvars>>

\* An error status. urllib3 retries it when Retry.is_retry says so, and
\* requests raises RetryError when it gives up; a status that is not
\* retried reaches raise_for_status, which raises HTTPError.
RespondStatus(status, ra) ==
    /\ pc = "send"
    /\ Observe(Outcome("status", status, ra, None))
    /\ IF IsRetry(status, ra, uTotal)
       THEN UrllibRetries("RetryError", status, Outcome("status", status, ra, None))
       ELSE BodyRaises("HTTPError", status, Outcome("status", status, ra, None))
    /\ UNCHANGED <<cfg, accessor>>
    /\ UNCHANGED <<xvars, hvars, pvars, lvars, bvars>>

\* A timeout, a refused connection or a failed name lookup: urllib3 retries
\* it, and requests raises ConnectTimeout or ConnectionError when it gives up.
NetworkFailure(kind) ==
    /\ pc = "send"
    /\ Observe(Outcome(kind, 0, 0, None))
    /\ UrllibRetries(NetworkException(kind), 0, Outcome(kind, 0, 0, None))
    /\ UNCHANGED <<cfg, accessor>>
    /\ UNCHANGED <<xvars, hvars, pvars, lvars, bvars>>

\* Any other failure of the attempt (a body cut short: ChunkedEncodingError,
\* a RequestException that is neither Timeout nor ConnectionError).
OtherFailure ==
    /\ pc = "send"
    /\ Observe(Outcome("other", 0, 0, None))
    /\ BodyRaises("ChunkedEncodingError", 0, Outcome("other", 0, 0, None))
    /\ UNCHANGED <<cfg, accessor>>
    /\ UNCHANGED <<xvars, hvars, pvars, lvars, bvars>>

CallAny == \E acc \in Accessors : Call(acc)

RespondJsonAny == \E v \in ResponseValues : RespondJson(v)

RespondStatusAny == \E s \in Statuses, ra \in {0, RetryAfterSecs} : RespondStatus(s, ra)

NetworkFailureAny == \E k \in NetworkFailures : NetworkFailure(k)

Next ==
    \/ CallAny
    \/ BodyStart
    \/ RespondJsonAny
    \/ RespondBadJson
    \/ RespondStatusAny
    \/ NetworkFailureAny
    \/ OtherFailure

Spec == Init /\ [][Next]_vars

\* A step of a running call: the body reaches session.get, or the HTTP
\* attempt in flight ends. session.get is given timeout_value (line 84), the
\* sleeps of urllib3 and tenacity are finite, the call is synchronous: a
\* running call always takes its next step.
AttemptEnds ==
    \/ BodyStart
    \/ RespondJsonAny
    \/ RespondBadJson
    \/ RespondStatusAny
    \/ NetworkFailureAny
    \/ OtherFailure

\* the clients whose api.retry section of the YAML file has the default
\* delay and backoff_factor, with every retry_count and either kind of URL
InitTerminate ==
    /\ \E c \in Configs :
           /\ c.retry_delay = 1        \* retry_config.get("delay", 1)
           /\ c.backoff_factor = 2     \* retry_config.get("backoff_factor", 2)
           /\ TransportInit(c)
    /\ PageOff
    /\ ExtractionOff
    /\ HumidityOff
    /\ TextOff

\* the transport, with every running call taking its steps
SpecTerminate == InitTerminate /\ [][Next]_vars /\ WF_vars(AttemptEnds)

----------------------------------------------------------------------------
(* The session from construction to close: close, __enter__ and __exit__   *)
(* of the client, the with statement of test_api_demo.py and the           *)
(* api_client fixture of conftest.py.                                      *)

\* Mutant: close() without its try/except
CloseReraises(exc) == exc

\* What close() raises when session.close() raised exc ("" when it raised
\* nothing): "except Exception" catches and logs it, lines 293-294.
CloseRaises(exc) == ""

\* __exit__ has no return statement: it returns None, which is not true
ExitReturn == FALSE

\* what session.close() raises: nothing, or an error of the connection pool
SessionCloseOutcomes == {"", "OSError"}

\* how the body of the with statement ends: normally, or with an exception
BodyOutcomes == {"", "AssertionError", "RequestException"}

\* a call of close() (lines 288-294): who called it, what session.close()
\* raised (line 291), and what close() raised to its caller
CloseCall(by, exc) == [by |-> by, sessionClose |-> exc, raised |-> CloseRaises(exc)]

\* a test calls client.close()
Close(exc) ==
    /\ pc \in {"idle", "done"}
    /\ Len(lCloses) < MaxCloses
    /\ lCloses' = Append(lCloses, CloseCall("close", exc))
    /\ UNCHANGED <<lScope, lSession, lSessions, lUsed, lBodyExc, lPropagated>>
    /\ UNCHANGED <<tvars, xvars, hvars, pvars, bvars>>

\* "with WeatherAPIClient() as client:" calls __enter__, which returns self
\* (lines 296-298)
Enter ==
    /\ lScope = "constructed"
    /\ pc = "idle"
    /\ lScope' = "with"
    /\ UNCHANGED <<lSession, lSessions, lUsed, lCloses, lBodyExc, lPropagated>>
    /\ UNCHANGED <<tvars, xvars, hvars, pvars, bvars>>

\* The body of the with statement ends, normally (bodyExc = "") or with the
\* exception bodyExc, and __exit__ runs (lines 300-302): it calls close(),
\* and as it returns None the exception of the body is raised again by the
\* with statement. An exception of __exit__ itself would take its place.
Exit(bodyExc, exc) ==
    /\ lScope = "with"
    /\ pc \in {"idle", "done"}
    /\ lScope' = "left"
    /\ lBodyExc' = bodyExc
    /\ lCloses' = Append(lCloses, CloseCall("__exit__", exc))
    /\ lPropagated' = IF CloseCall("__exit__", exc).raised /= ""
                      THEN CloseCall("__exit__", exc).raised
                      ELSE IF ExitReturn THEN "" ELSE bodyExc
    /\ UNCHANGED <<lSession, lSessions, lUsed>>
    /\ UNCHANGED <<tvars, xvars, hvars, pvars, bvars>>

\* the api_client fixture yields the client it made (conftest.py, lines
\* 174-181)
ApiClientYield ==
    /\ lScope = "constructed"
    /\ pc = "idle"
    /\ lScope' = "fixture"
    /\ UNCHANGED <<lSession, lSessions, lUsed, lCloses, lBodyExc, lPropagated>>
    /\ UNCHANGED <<tvars, xvars, hvars, pvars, bvars>>

\* The test session ends and the fixture runs what follows its yield
\* (conftest.py, line 183): one logger.info, and nothing else.
ApiClientTeardown ==
    /\ lScope = "fixture"
    /\ pc \in {"idle", "done"}
    /\ lScope' = "torndown"
    /\ UNCHANGED <<lSession, lSessions, lUsed, lCloses, lBodyExc, lPropagated>>
    /\ UNCHANGED <<tvars, xvars, hvars, pvars, bvars>>

CloseAny == \E exc \in SessionCloseOutcomes : Close(exc)

ExitAny == \E bodyExc \in BodyOutcomes, exc \in SessionCloseOutcomes : Exit(bodyExc, exc)

\* a client with one retry of urllib3
LifecycleConfig ==
    [max_retries |-> 1, retry_delay |-> 1, backoff_factor |-> 2, url_ok |-> TRUE]

InitLifecycle ==
    /\ TransportInit(LifecycleConfig)
    /\ PageOff
    /\ ExtractionOff
    /\ HumidityOff
    /\ TextOff

\* requests of the client, and what the tests do with the client itself
NextLifecycle ==
    \/ Next
    \/ Enter
    \/ ExitAny
    \/ CloseAny
    \/ ApiClientYield
    \/ ApiClientTeardown

SpecLifecycle == InitLifecycle /\ [][NextLifecycle]_vars

----------------------------------------------------------------------------
(* extract_forecast_for_date. *)

\* the digits of n, zero-padded to width w: what %Y, %m and %d produce
Digits(n, w) == [i \in 1..w |-> (n \div Pow(10, w - i)) % 10]

\* Mutant: month and day without zero padding ("%Y%-m%-d")
StrftimeNoPad(date) ==
    Digits(date.y, 4)
        \o (IF date.m < 10 THEN Digits(date.m, 1) ELSE Digits(date.m, 2))
        \o (IF date.d < 10 THEN Digits(date.d, 1) ELSE Digits(date.d, 2))

\* date.strftime("%Y%m%d"), a string of eight digits
Strftime(date) == Digits(date.y, 4) \o Digits(date.m, 2) \o Digits(date.d, 2)

\* The dates asked for: a day with a one-digit day, the last day of a year
\* and the first day of the next.
Dates ==
    { [y |-> 2026, m |-> 11, d |-> 3],
      [y |-> 2026, m |-> 12, d |-> 31],
      [y |-> 2027, m |-> 1, d |-> 1] }

\* The forecastDate strings of a payload: the keys of Dates, the same dates
\* written without zero padding, and "" (which .get also gives for an entry
\* without the key).
ForecastDates ==
    { Strftime(dt) : dt \in Dates } \cup { <<2, 0, 2, 6, 1, 1, 3>>, <<2, 0, 2, 7, 1, 1>>, <<>> }

\* What an entry holds under forecastMinrh or forecastMaxrh: a JSON object
\* with an integer under "value" or with none (a missing "value" and a null
\* one are both None to .get), nothing at all (shape "missing": the key is
\* not in the entry), or a JSON value that is no object (shape "null": a
\* null, a number, a string or a list).
Rh(shape, hasValue, value) == [shape |-> shape, hasValue |-> hasValue, value |-> value]

RhValue(v) == Rh("object", TRUE, v)

RhNoValue == Rh("object", FALSE, 0)

RhMissing == Rh("missing", FALSE, 0)

RhNull == Rh("null", FALSE, 0)

\* An entry of weatherForecast: a JSON object with its forecastDate, its
\* forecastMinrh and its forecastMaxrh, or a JSON value that is no object
\* (shape "null").
ForecastEntry(shape, fd, minrh, maxrh) ==
    [shape |-> shape, forecastDate |-> fd, forecastMinrh |-> minrh,
     forecastMaxrh |-> maxrh]

NullEntry == ForecastEntry("null", <<>>, RhMissing, RhMissing)

Entries ==
    { ForecastEntry("object", fd, RhValue(rh), RhValue(85)) :
          fd \in ForecastDates, rh \in {60, 70} }
        \cup { NullEntry }

EntryLists == UNION { [1..n -> Entries] : n \in 0..MaxEntries }

\* The forecast_data values: JSON objects with a weatherForecast list (an
\* empty list stands for a missing key too), the empty object, a JSON array
\* and None.
Payloads ==
    { Json("object", 1, wf) : wf \in EntryLists }
        \cup { Json("object", 0, <<>>), Json("array", 1, <<>>), None }

\* Mutant: the loop keeps going after a match, so the last match wins
RECURSIVE ScanForecastsLast(_, _, _)
ScanForecastsLast(forecasts, key, i) ==
    IF i > Len(forecasts) THEN None
    ELSE IF forecasts[i].shape /= "object" THEN None
    ELSE LET rest == ScanForecastsLast(forecasts, key, i + 1)
         IN  IF forecasts[i].forecastDate = key /\ rest = None
             THEN forecasts[i]
             ELSE rest

\* The loop of lines 191-197 from index i on: the first entry whose
\* forecastDate equals key. forecast.get on an entry that is no object
\* raises AttributeError, which line 202 turns into None.
RECURSIVE ScanForecasts(_, _, _)
ScanForecasts(forecasts, key, i) ==
    IF i > Len(forecasts) THEN None
    ELSE IF forecasts[i].shape /= "object" THEN None
    ELSE IF forecasts[i].forecastDate = key THEN forecasts[i]
    ELSE ScanForecasts(forecasts, key, i + 1)

\* Lines 176-204, with forecast_data already fetched when it was not given.
ExtractFromData(date, data) ==
    IF ~Truthy(data) THEN None
    ELSE IF data.t /= "object" THEN None
    ELSE IF data.wf = <<>> THEN None
    ELSE ScanForecasts(data.wf, Strftime(date), 1)

\* What _make_request may hand to get_nine_day_forecast when the service
\* answers with one of payloads, or fails.
FetchOutcomesOf(payloads) ==
    { Raised("tenacity.RetryError", 0), Raised("HTTPError", 404) }
        \cup { Returned(v) : v \in payloads }

FetchOutcomes == FetchOutcomesOf(Payloads)

\* Mutant: every falsy forecast_data is fetched anew ("if not forecast_data")
FetchWhenFalsy(forecast_data) == ~Truthy(forecast_data)

\* Line 173: forecast_data is None
ForecastDataIsNone(forecast_data) == forecast_data = None

XInit ==
    /\ xpc = "start"
    /\ xDate \in Dates
    /\ xData \in Payloads
    /\ xFetched = None
    /\ xFetches = 0
    /\ xResult = None

\* The body of extract_forecast_for_date(date, xData), lines 173-204:
\* get_nine_day_forecast is called when forecast_data is None, with one of
\* fetchable as the outcome of its request, and its answer is used in the
\* place of forecast_data.
ForecastForDate(date, fetchable) ==
    /\ IF ForecastDataIsNone(xData)
       THEN /\ \E r \in fetchable :
                 xFetched' = AccessorReturn("nine_day_forecast", r)
            /\ xFetches' = xFetches + 1
       ELSE UNCHANGED <<xFetched, xFetches>>
    /\ xResult' = ExtractFromData(date, IF ForecastDataIsNone(xData)
                                         THEN xFetched' ELSE xData)

\* extract_forecast_for_date(xDate, xData)
ExtractForecastForDate ==
    /\ xpc = "start"
    /\ ForecastForDate(xDate, FetchOutcomes)
    /\ xpc' = "done"
    /\ UNCHANGED <<xDate, xData>>
    /\ UNCHANGED <<tvars, hvars, pvars, lvars, bvars>>

\* The client of the extraction specification: built with the defaults.
DefaultConfig ==
    [max_retries |-> 3, retry_delay |-> 1, backoff_factor |-> 2, url_ok |-> TRUE]

InitExtract ==
    /\ TransportInit(DefaultConfig)
    /\ PageOff
    /\ XInit
    /\ HumidityOff
    /\ TextOff

NextExtract == ExtractForecastForDate

SpecExtract == InitExtract /\ [][NextExtract]_vars

----------------------------------------------------------------------------
(* extract_humidity_for_day_offset. *)

\* calendar.isleap, as datetime uses it
IsLeap(year) == year % 4 = 0 /\ (year % 100 /= 0 \/ year % 400 = 0)

\* datetime's _DAYS_IN_MONTH and _DAYS_BEFORE_MONTH, index 1 for January
DAYS_IN_MONTH == <<31, 28, 31, 30, 31, 30, 31, 31, 30, 31, 30, 31>>

DAYS_BEFORE_MONTH == <<0, 31, 59, 90, 120, 151, 181, 212, 243, 273, 304, 334>>

\* datetime's _ymd2ord: the ordinal of a date, 1 for 0001-01-01
Ymd2Ord(date) ==
    LET y == date.y - 1
    IN  y * 365 + y \div 4 - y \div 100 + y \div 400
          + DAYS_BEFORE_MONTH[date.m]
          + (IF date.m > 2 /\ IsLeap(date.y) THEN 1 ELSE 0)
          + date.d

\* datetime's _ord2ymd: the date of an ordinal, by 400-, 100-, 4- and 1-year
\* cycles, then an estimate of the month that is one too large at most
Ord2Ymd(ordinal) ==
    LET n0 == ordinal - 1
        n400 == n0 \div 146097
        r400 == n0 % 146097
        n100 == r400 \div 36524
        r100 == r400 % 36524
        n4 == r100 \div 1461
        r4 == r100 % 1461
        n1 == r4 \div 365
        n == r4 % 365
        year == n400 * 400 + 1 + n100 * 100 + n4 * 4 + n1
        leapyear == n1 = 3 /\ (n4 /= 24 \/ n100 = 3)
        estimate == (n + 50) \div 32
        before == DAYS_BEFORE_MONTH[estimate]
                      + (IF estimate > 2 /\ leapyear THEN 1 ELSE 0)
        month == IF before > n THEN estimate - 1 ELSE estimate
        preceding == IF before > n
                     THEN before - (DAYS_IN_MONTH[month]
                                      + (IF month = 2 /\ leapyear THEN 1 ELSE 0))
                     ELSE before
    IN  IF n1 = 4 \/ n100 = 4
        THEN [y |-> year - 1, m |-> 12, d |-> 31]
        ELSE [y |-> year, m |-> month, d |-> n - preceding + 1]

\* Mutant: the offset is applied without its sign
AddDaysForward(date, days) ==
    Ord2Ymd(Ymd2Ord(date) + (IF days < 0 THEN 0 - days ELSE days))

\* date + timedelta(days=days), line 214
AddDays(date, days) == Ord2Ymd(Ymd2Ord(date) + days)

\* str() of a digit
DigitChars == <<"0", "1", "2", "3", "4", "5", "6", "7", "8", "9">>

\* str(n) of an int n >= 0, as the f-string of line 231 writes it
RECURSIVE IntToStr(_)
IntToStr(n) ==
    IF n < 10 THEN <<DigitChars[n + 1]>>
    ELSE IntToStr(n \div 10) \o <<DigitChars[(n % 10) + 1]>>

\* Mutant: the producer writes an en-dash between the two values
HumidityStringEnDash(min_val, max_val) ==
    IntToStr(min_val) \o <<" ", "U+2013", " ">> \o IntToStr(max_val)

\* f"{min_val} - {max_val}", line 231
HumidityString(min_val, max_val) ==
    IntToStr(min_val) \o <<" ", "-", " ">> \o IntToStr(max_val)

\* Lines 219-236 for the forecast that extract_forecast_for_date gave: .get
\* on a forecastMinrh or forecastMaxrh that is no dict raises AttributeError,
\* and nothing in this function catches it.
HumidityOfForecast(forecast) ==
    IF forecast = None THEN NoText
    ELSE IF forecast.forecastMinrh.shape = "null"
              \/ forecast.forecastMaxrh.shape = "null"
         THEN TextResult("AttributeError", <<>>)
    ELSE IF forecast.forecastMinrh.hasValue /\ forecast.forecastMaxrh.hasValue
         THEN StrOf(HumidityString(forecast.forecastMinrh.value,
                                   forecast.forecastMaxrh.value))
    ELSE NoText

\* The calendar the service dates its entries by: the length of a month,
\* the day after and the day before a date, and the date k days from one.
MonthLength(year, month) ==
    IF month = 2
    THEN (IF year % 4 = 0 /\ (year % 100 /= 0 \/ year % 400 = 0) THEN 29 ELSE 28)
    ELSE IF month \in {4, 6, 9, 11} THEN 30 ELSE 31

DayAfter(date) ==
    IF date.d < MonthLength(date.y, date.m) THEN [date EXCEPT !.d = @ + 1]
    ELSE IF date.m < 12 THEN [y |-> date.y, m |-> date.m + 1, d |-> 1]
    ELSE [y |-> date.y + 1, m |-> 1, d |-> 1]

DayBefore(date) ==
    IF date.d > 1 THEN [date EXCEPT !.d = @ - 1]
    ELSE IF date.m > 1
         THEN [y |-> date.y, m |-> date.m - 1, d |-> MonthLength(date.y, date.m - 1)]
    ELSE [y |-> date.y - 1, m |-> 12, d |-> 31]

RECURSIVE CalendarPlus(_, _)
CalendarPlus(date, k) ==
    IF k = 0 THEN date
    ELSE IF k > 0 THEN CalendarPlus(DayAfter(date), k - 1)
    ELSE CalendarPlus(DayBefore(date), k + 1)

\* the forecastDate the service gives the entry of a day
ForecastDateOf(date) == Digits(date.y, 4) \o Digits(date.m, 2) \o Digits(date.d, 2)

\* The values of datetime.now(): an ordinary day, the last and the first day
\* of a year, and the days around the end of February in a leap year and in
\* a common year.
Nows ==
    { [y |-> 2026, m |-> 11, d |-> 3],
      [y |-> 2026, m |-> 12, d |-> 31],
      [y |-> 2027, m |-> 1, d |-> 1],
      [y |-> 2027, m |-> 3, d |-> 1],
      [y |-> 2028, m |-> 2, d |-> 28],
      [y |-> 2028, m |-> 3, d |-> 1] }

Offsets == (0 - MaxOffset)..MaxOffset

\* The forecastMinrh and forecastMaxrh of the entries of a payload: both
\* values there (0 among them), one of the two without a value, missing, or
\* no object.
RhPairs ==
    { <<RhValue(60), RhValue(85)>>, <<RhValue(0), RhValue(50)>>,
      <<RhValue(5), RhValue(100)>>, <<RhMissing, RhValue(85)>>,
      <<RhValue(60), RhNoValue>>, <<RhNoValue, RhMissing>>,
      <<RhNull, RhValue(85)>>, <<RhValue(60), RhNull>> }

\* The entries of the day that is days after date, one entry of the day
\* after that one, and one that is no object.
HumidityEntries(date, days) ==
    { ForecastEntry("object", ForecastDateOf(CalendarPlus(date, days)), p[1], p[2]) :
          p \in RhPairs }
        \cup { ForecastEntry("object", ForecastDateOf(CalendarPlus(date, days + 1)),
                              RhValue(70), RhValue(90)),
               NullEntry }

\* The payloads around the day that is days after date: lists of up to
\* MaxEntries entries, the empty object and None.
HumidityPayloads(date, days) ==
    { Json("object", 1, wf) :
          wf \in UNION { [1..n -> HumidityEntries(date, days)] : n \in 0..MaxEntries } }
        \cup { Json("object", 0, <<>>), None }

\* extract_humidity_for_day_offset is called at the date hNow with a
\* day_offset and a payload that has entries around the day asked for.
HInit ==
    /\ hpc = "start"
    /\ hNow \in Nows
    /\ hOffset \in Offsets
    /\ hResult = NoText
    /\ xpc = "off"
    /\ xDate = hNow
    /\ xData \in HumidityPayloads(hNow, hOffset)
    /\ xFetched = None
    /\ xFetches = 0
    /\ xResult = None

\* extract_humidity_for_day_offset(day_offset, xData), lines 214-236: the
\* target date is passed to extract_forecast_for_date with the payload.
HumidityForDayOffset(day_offset) ==
    /\ hpc = "start"
    /\ hOffset' = day_offset
    /\ xDate' = AddDays(hNow, day_offset)
    /\ ForecastForDate(xDate', FetchOutcomesOf(HumidityPayloads(hNow, hOffset)))
    /\ hResult' = HumidityOfForecast(xResult')
    /\ hpc' = "done"
    /\ UNCHANGED <<hNow, xpc, xData>>
    /\ UNCHANGED <<tvars, pvars, lvars, bvars>>

ExtractHumidityForDayOffset == HumidityForDayOffset(hOffset)

\* extract_humidity_for_day_after_tomorrow(xData), lines 238-243
ExtractHumidityForDayAfterTomorrow == HumidityForDayOffset(2)

InitHumidity ==
    /\ TransportInit(DefaultConfig)
    /\ PageOff
    /\ HInit
    /\ TextOff

NextHumidity ==
    \/ ExtractHumidityForDayOffset
    \/ ExtractHumidityForDayAfterTomorrow

SpecHumidity == InitHumidity /\ [][NextHumidity]_vars

----------------------------------------------------------------------------
(* Claims about the transport and the accessors, checked under Spec. *)

\* C1: when every attempt of a request is answered with HTTP 503, exactly
\* maxAttempts (the configured retry count) HTTP attempts are made and the
\* request then fails with an HTTP error carrying status 503.
C1_ExactlyMaxAttemptsThenHTTPError503 ==
    (cfg.max_retries >= 1 /\ pc = "done" /\ hist = "503")
        => (httpAttempts = cfg.max_retries /\ result = Raised("HTTPError", 503))

\* C2: when every attempt ends in a timeout or a connection failure, the
\* HTTP attempts of the call, over all retry layers, never exceed the
\* configured retry count, and the call fails instead of returning a value.
C2_NetworkFailuresBoundedByMaxAttempts ==
    (cfg.max_retries >= 1 /\ hist = "net")
        => (httpAttempts <= cfg.max_retries /\ (pc = "done" => result.kind = "error"))

\* C3: the delay waited after failed attempt n is the configured base delay
\* times the configured backoff multiplier to the power n - 1, and is never
\* larger than the maximum delay of 10.
C3_DelayIsConfiguredGeometric ==
    \A n \in 1..Len(delays) :
        /\ delays[n] = cfg.retry_delay * Pow(cfg.backoff_factor, n - 1)
        /\ delays[n] <= wait_max

\* C4: within one request call the delays between consecutive attempts
\* strictly increase.
C4_DelaysStrictlyIncrease ==
    \A n \in 1..(Len(delays) - 1) : delays[n] < delays[n + 1]

\* C5: a response with a 4xx status other than 429 makes the request fail at
\* once with an HTTP error for that status: one HTTP attempt, no delay.
C5_NonRetryable4xxFailsImmediately ==
    hist = "4xx"
        => /\ pc = "done"
           /\ httpAttempts = 1
           /\ delays = <<>>
           /\ result = Raised("HTTPError", final.status)

\* The call ended on its first failure: the body ran once, at most one HTTP
\* attempt was made, nothing was slept, and the failure itself (not the
\* RetryError of an exhausted retry) went to the caller.
EndedOnFirstFailure ==
    /\ pc = "done"
    /\ bodyCalls = 1
    /\ httpAttempts <= 1
    /\ delays = <<>>
    /\ result.kind = "error"
    /\ result.exc \notin {"tenacity.RetryError", "RetryError"}

\* the call has got as far as the malformed URL lets it
MalformedUrlHandled == ~cfg.url_ok /\ pc \in {"send", "done"}

C7_SuccessResponseEndsTheCall ==
    /\ seen2xx => pc = "done" /\ final.kind \in {"ok", "badjson"}
    /\ (pc = "done" /\ final.kind = "badjson") => result = Raised("JSONDecodeError", 0)
    /\ (pc = "done" /\ final.kind = "ok") => result = Returned(final.body)

\* C7 witness: after a retried failure, a 2xx response without a JSON body
\* has ended the call.
C7_Witness ==
    pc = "done" /\ final.kind = "badjson" /\ httpAttempts > 1

\* C8: an accessor returns none whenever the transport fails, and the
\* transport's payload unchanged whenever it succeeds.
C8_AccessorReturnsNoneOrPayload ==
    pc = "done"
        => /\ result.kind = "error" => accResult = None
           /\ result.kind = "json" => accResult = result.value

----------------------------------------------------------------------------
(* Claims about extract_forecast_for_date, checked under SpecExtract. *)

\* the forecast_data the scan works on: the argument, or what was fetched
EffectiveData == IF xData = None THEN xFetched ELSE xData

\* the target key as the claims state it: the date written YYYYMMDD
KeyYYYYMMDD(date) ==
    << date.y \div 1000, (date.y \div 100) % 10, (date.y \div 10) % 10, date.y % 10,
       date.m \div 10, date.m % 10, date.d \div 10, date.d % 10 >>

\* the indices of the entries whose forecastDate equals the target key
MatchingIndices ==
    { i \in 1..Len(EffectiveData.wf) :
        /\ EffectiveData.wf[i].shape = "object"
        /\ EffectiveData.wf[i].forecastDate = KeyYYYYMMDD(xDate) }

\* every entry before index i is a JSON object
ObjectsBefore(i) == \A j \in 1..(i - 1) : EffectiveData.wf[j].shape = "object"

\* C9: the entries are scanned in payload order and the first entry whose
\* forecastDate equals the target key is returned; of several entries with
\* that forecastDate the one with the smallest index is returned.
C9_FirstMatchWins ==
    xpc = "done" =>
        \A i \in MatchingIndices :
            ((\A j \in MatchingIndices : i <= j) /\ ObjectsBefore(i))
                => xResult = EffectiveData.wf[i]

\* C9 witness: two entries share the target forecastDate, differ otherwise,
\* and the one at the smaller index was returned.
C9_Witness ==
    /\ xpc = "done"
    /\ {1, 2} \subseteq MatchingIndices
    /\ EffectiveData.wf[1] /= EffectiveData.wf[2]
    /\ xResult = EffectiveData.wf[1]

\* the cases in which C10 says none is returned
NoneCase ==
    \/ ~Truthy(EffectiveData)
    \/ EffectiveData.wf = <<>>
    \/ MatchingIndices = {}

\* C10: none is returned when the payload is absent, when it has no
\* weatherForecast entries, or when no entry's forecastDate equals the date
\* formatted as YYYYMMDD; in every other case an entry that is returned is
\* an element of weatherForecast whose forecastDate equals that key (and one
\* is returned when the entries are all JSON objects).
C10_NoneOrMatchingEntry ==
    xpc = "done" =>
        /\ NoneCase => xResult = None
        /\ ~NoneCase =>
              /\ xResult /= None =>
                    \E i \in MatchingIndices : xResult = EffectiveData.wf[i]
              /\ ObjectsBefore(Len(EffectiveData.wf) + 1) => xResult /= None

\* C10 witness: a payload with entries, one of them the target date written
\* without zero padding, none equal to the key: none was returned.
C10_Witness ==
    /\ xpc = "done"
    /\ xDate = [y |-> 2027, m |-> 1, d |-> 1]
    /\ Len(EffectiveData.wf) = 2
    /\ EffectiveData.wf[1].forecastDate = <<2, 0, 2, 7, 1, 1>>
    /\ EffectiveData.wf[2].forecastDate = Strftime([y |-> 2026, m |-> 12, d |-> 31])
    /\ xResult = None

\* C11: extract_forecast_for_date calls get_nine_day_forecast, exactly once,
\* if and only if no payload is supplied; with a payload supplied, an empty
\* one included, nothing is fetched and the result is none or an entry of
\* the supplied payload.
C11_FetchesIffNoPayload ==
    xpc = "done" =>
        /\ xFetches = (IF xData = None THEN 1 ELSE 0)
        /\ xData /= None =>
              /\ xFetched = None
              /\ xResult /= None => \E i \in 1..Len(xData.wf) : xResult = xData.wf[i]

\* C11 witness: the empty object was supplied, nothing was fetched and none
\* was returned.
C11_Witness ==
    /\ xpc = "done"
    /\ xData = Json("object", 0, <<>>)
    /\ xFetches = 0
    /\ xResult = None

----------------------------------------------------------------------------
(* Claims about extract_humidity_for_day_offset, checked under             *)
(* SpecHumidity.                                                           *)

\* the current date plus the offset asked for, by the calendar
TargetDate == CalendarPlus(hNow, hOffset)

\* the indices of the entries whose forecastDate is the target date
TargetIndices ==
    { i \in 1..Len(EffectiveData.wf) :
        /\ EffectiveData.wf[i].shape = "object"
        /\ EffectiveData.wf[i].forecastDate = KeyYYYYMMDD(TargetDate) }

FirstTargetIndex == CHOOSE i \in TargetIndices : \A j \in TargetIndices : i <= j

\* an entry exists for the target date (and the scan of C9 reaches it)
HasTargetEntry == TargetIndices /= {} /\ ObjectsBefore(FirstTargetIndex)

TargetEntry == EffectiveData.wf[FirstTargetIndex]

\* forecastMinrh.value, or forecastMaxrh.value, is there
ValuePresent(rh) == rh.shape = "object" /\ rh.hasValue

\* an integer of up to three digits written in decimal
DecimalText(n) ==
    LET w == IF n < 10 THEN 1 ELSE IF n < 100 THEN 2 ELSE 3
    IN  [i \in 1..w |-> DigitChars[Digits(n, w)[i] + 1]]

\* "<min> - <max>" for the values of an entry
RangeTextOf(entry) ==
    DecimalText(entry.forecastMinrh.value) \o <<" ", "-", " ">>
        \o DecimalText(entry.forecastMaxrh.value)

\* C12: for every offset, negative, zero or positive, the entry looked up
\* is the one of the current date plus offset days, and when that entry has
\* both humidity values the result is the string "<min> - <max>" built from
\* its forecastMinrh.value and forecastMaxrh.value.
C12_OffsetEntryGivesRangeString ==
    hpc = "done" =>
        /\ xDate = TargetDate
        /\ (/\ HasTargetEntry
            /\ ValuePresent(TargetEntry.forecastMinrh)
            /\ ValuePresent(TargetEntry.forecastMaxrh))
              => hResult = StrOf(RangeTextOf(TargetEntry))

\* C12 witness: at 2028-02-28 with offset 2 the entry of 2028-03-01 holds
\* 60 and 85, and "60 - 85" was returned.
C12_Witness ==
    /\ hpc = "done"
    /\ hNow = [y |-> 2028, m |-> 2, d |-> 28]
    /\ hOffset = 2
    /\ HasTargetEntry
    /\ TargetEntry.forecastDate = <<2, 0, 2, 8, 0, 3, 0, 1>>
    /\ TargetEntry.forecastMinrh = RhValue(60)
    /\ TargetEntry.forecastMaxrh = RhValue(85)
    /\ hResult = StrOf(<<"6", "0", " ", "-", " ", "8", "5">>)

\* C13: none is returned exactly when no entry exists for the target date
\* or forecastMinrh.value or forecastMaxrh.value is absent from that entry;
\* a value that is there and equal to 0 is not absent.
C13_NoneExactlyWhenEntryOrValueAbsent ==
    hpc = "done" =>
        (hResult = NoText
            <=> \/ ~HasTargetEntry
                \/ ~ValuePresent(TargetEntry.forecastMinrh)
                \/ ~ValuePresent(TargetEntry.forecastMaxrh))

\* C27: extract_humidity_for_day_offset never raises, whatever the shape of
\* the payload; when the entry of the target date has a forecastMinrh or
\* forecastMaxrh that is present but no object with a value (null, a bare
\* number), none is returned.
C27_MalformedHumidityGivesNone ==
    hpc = "done" =>
        /\ hResult.kind \in {"str", "none"}
        /\ (/\ HasTargetEntry
            /\ \/ TargetEntry.forecastMinrh.shape = "null"
               \/ TargetEntry.forecastMaxrh.shape = "null")
              => hResult = NoText


----------------------------------------------------------------------------
(* parse_humidity_from_text and validate_humidity_range. *)

\* \d and \s of the pattern, for the characters of the texts
IsDigit(c) == \E i \in 1..10 : DigitChars[i] = c

IsSpace(c) == c = " "

\* int() of a str of digits
RECURSIVE IntOf(_)
IntOf(digits) ==
    IF digits = <<>> THEN 0
    ELSE IntOf(SubSeq(digits, 1, Len(digits) - 1)) * 10
           + (CHOOSE v \in 0..9 : DigitChars[v + 1] = digits[Len(digits)])

\* The characters in the brackets of the pattern of line 246: the hyphen,
\* and the three characters that the bytes c3 a2, e2 82 ac and e2 80 9c of
\* the source file are in UTF-8. The en-dash U+2013 is not among them.
SeparatorClass == {"-", "U+00E2", "U+20AC", "U+201C"}

\* the index after the longest run of digits that starts at index i
RECURSIVE DigitsEnd(_, _)
DigitsEnd(text, i) ==
    IF i <= Len(text) /\ IsDigit(text[i]) THEN DigitsEnd(text, i + 1) ELSE i

\* Mutant: the pattern without its \s*
SpacesEndNone(text, i) == i

\* the index after the longest run of whitespace that starts at index i
RECURSIVE SpacesEnd(_, _)
SpacesEnd(text, i) ==
    IF i <= Len(text) /\ IsSpace(text[i]) THEN SpacesEnd(text, i + 1) ELSE i

NoMatch == [ok |-> FALSE, group1 |-> <<>>, group2 |-> <<>>]

\* The match of (\d+)\s*%?\s*[...]\s*(\d+)\s*%? that begins at index start.
\* The classes of neighbouring parts of the pattern share no character, so
\* the greedy reading is the only one: a shorter first group would have to
\* be followed by a digit where the pattern has none, and the trailing
\* \s*%? matches whatever follows the second group.
MatchAt(text, start) ==
    LET n == Len(text)
        end1 == DigitsEnd(text, start)
        percent == SpacesEnd(text, end1)
        afterPercent == IF percent <= n /\ text[percent] = "%"
                        THEN percent + 1 ELSE percent
        separator == SpacesEnd(text, afterPercent)
        start2 == SpacesEnd(text, separator + 1)
        end2 == DigitsEnd(text, start2)
    IN  IF end1 = start THEN NoMatch
        ELSE IF separator > n THEN NoMatch
        ELSE IF text[separator] \notin SeparatorClass THEN NoMatch
        ELSE IF end2 = start2 THEN NoMatch
        ELSE [ok |-> TRUE, group1 |-> SubSeq(text, start, end1 - 1),
              group2 |-> SubSeq(text, start2, end2 - 1)]

\* re.search(pattern, text): the match at the leftmost index that has one
ReSearch(text) ==
    LET starts == { i \in 1..Len(text) : MatchAt(text, i).ok }
    IN  IF starts = {} THEN NoMatch
        ELSE MatchAt(text, CHOOSE i \in starts : \A j \in starts : i <= j)

\* parse_humidity_from_text(text), lines 245-255: re.search raises TypeError
\* for a text that is no str
ParseHumidity(text) ==
    IF text.kind /= "str" THEN ParseResult("TypeError", 0, 0)
    ELSE LET match == ReSearch(text.text)
         IN  IF match.ok THEN Pair(IntOf(match.group1), IntOf(match.group2))
             ELSE NoPair

\* Mutant: a bound is tested for truth ("if expected_max and ...")
IsTruthyBound(expected) == expected.given /\ expected.value /= 0

\* "expected_min is not None", "expected_max is not None" (lines 277, 281)
IsNotNone(expected) == expected.given

\* validate_humidity_range after its call of parse_humidity_from_text,
\* lines 265-286
ValidateParsed(humidity_range, expected_min, expected_max) ==
    IF humidity_range.kind = "TypeError" THEN ValidResult("TypeError", FALSE)
    ELSE IF humidity_range.kind = "none" THEN ValidResult("bool", FALSE)
    ELSE IF humidity_range.min > humidity_range.max THEN ValidResult("bool", FALSE)
    ELSE IF IsNotNone(expected_min) /\ humidity_range.min < expected_min.value
         THEN ValidResult("bool", FALSE)
    ELSE IF IsNotNone(expected_max) /\ humidity_range.max > expected_max.value
         THEN ValidResult("bool", FALSE)
    ELSE ValidResult("bool", TRUE)

\* parse_humidity_from_text(pText)
ParseHumidityFromText ==
    /\ ppc = "start"
    /\ pParsed' = ParseHumidity(pText)
    /\ ppc' = "parsed"
    /\ UNCHANGED <<pSource, pText, pExpMin, pExpMax, pValid, pExtracted>>
    /\ UNCHANGED <<tvars, xvars, hvars, lvars, bvars>>

\* validate_humidity_range(pText, expected_min, expected_max)
ValidateHumidityRange(expected_min, expected_max) ==
    /\ ppc = "start"
    /\ pExpMin' = expected_min
    /\ pExpMax' = expected_max
    /\ pParsed' = ParseHumidity(pText)
    /\ pValid' = ValidateParsed(pParsed', expected_min, expected_max)
    /\ ppc' = "validated"
    /\ UNCHANGED <<pSource, pText, pExtracted>>
    /\ UNCHANGED <<tvars, xvars, hvars, lvars, bvars>>

\* The character class [-U+2013] of the page's pattern
\* (src/pages/nine_day_forecast_page.py, lines 257 and 277: the bytes 2d and
\* e2 80 93)
UiSeparatorClass == {"-", "U+2013"}

\* The match of (\d+)\s*%?\s*[-U+2013]\s*(\d+)\s*% that begins at index
\* start: the pattern of the page ends with a percent sign that is not
\* optional. The greedy reading is again the only one.
UiMatchAt(text, start) ==
    LET n == Len(text)
        end1 == DigitsEnd(text, start)
        percent == SpacesEnd(text, end1)
        afterPercent == IF percent <= n /\ text[percent] = "%"
                        THEN percent + 1 ELSE percent
        separator == SpacesEnd(text, afterPercent)
        start2 == SpacesEnd(text, separator + 1)
        end2 == DigitsEnd(text, start2)
        last == SpacesEnd(text, end2)
    IN  IF end1 = start THEN NoMatch
        ELSE IF separator > n THEN NoMatch
        ELSE IF text[separator] \notin UiSeparatorClass THEN NoMatch
        ELSE IF end2 = start2 THEN NoMatch
        ELSE IF last > n THEN NoMatch
        ELSE IF text[last] /= "%" THEN NoMatch
        ELSE [ok |-> TRUE, group1 |-> SubSeq(text, start, end1 - 1),
              group2 |-> SubSeq(text, start2, end2 - 1)]

\* re.search(humidity_pattern, text) of the page, line 279
UiReSearch(text) ==
    LET starts == { i \in 1..Len(text) : UiMatchAt(text, i).ok }
    IN  IF starts = {} THEN NoMatch
        ELSE UiMatchAt(text, CHOOSE i \in starts : \A j \in starts : i <= j)

\* NineDayForecastPage.extract_humidity_from_text(text), lines 267-286: the
\* string "<group 1>-<group 2>%" of the match, or None
ExtractHumidity(text) ==
    IF text.kind /= "str" THEN TextResult("TypeError", <<>>)
    ELSE LET match == UiReSearch(text.text)
         IN  IF match.ok
             THEN StrOf(match.group1 \o <<"-">> \o match.group2 \o <<"%">>)
             ELSE NoText

\* extract_humidity_from_text(pText) of the page, for the text that the
\* client's parse_humidity_from_text was given
ExtractHumidityFromText ==
    /\ ppc = "parsed"
    /\ pExtracted' = ExtractHumidity(pText)
    /\ ppc' = "extracted"
    /\ UNCHANGED <<pSource, pText, pExpMin, pExpMax, pParsed, pValid>>
    /\ UNCHANGED <<tvars, xvars, hvars, lvars, bvars>>

\* the expected_min and expected_max of the calls
ExpectedBounds == { NotGiven, Expected(TRUE, 0), Expected(TRUE, 50), Expected(TRUE, 65) }

ValidateAny ==
    \E expected_min \in ExpectedBounds, expected_max \in ExpectedBounds :
        ValidateHumidityRange(expected_min, expected_max)

\* a text given for a source
Written(source, text) == [source |-> source, text |-> text]

\* The text a form gives for the integers a and b: "produced" is what
\* extract_humidity_for_day_offset returns for an entry with the values a
\* and b; the other forms are written out, with spaces, percent signs and
\* the separator as their names show (a and b stand for the integers in
\* decimal, EN for the en-dash U+2013, A-CIRC for U+00E2, TO for " to ").
FormText(form, a, b) ==
    LET A == DecimalText(a)
        B == DecimalText(b)
    IN  CASE form = "produced" ->
               HumidityOfForecast(ForecastEntry("object", <<>>, RhValue(a), RhValue(b)))
          [] form = "a - b" -> StrOf(A \o <<" ", "-", " ">> \o B)
          [] form = "a-b%" -> StrOf(A \o <<"-">> \o B \o <<"%">>)
          [] form = "a - b%" -> StrOf(A \o <<" ", "-", " ">> \o B \o <<"%">>)
          [] form = "a%-b%" -> StrOf(A \o <<"%", "-">> \o B \o <<"%">>)
          [] form = "aENb" -> StrOf(A \o <<"U+2013">> \o B)
          [] form = "a EN b" -> StrOf(A \o <<" ", "U+2013", " ">> \o B)
          [] form = "aENb%" -> StrOf(A \o <<"U+2013">> \o B \o <<"%">>)
          [] form = "a%ENb%" -> StrOf(A \o <<"%", "U+2013">> \o B \o <<"%">>)
          [] form = "aA-CIRCb" -> StrOf(A \o <<"U+00E2">> \o B)
          [] form = "a TO b" -> StrOf(A \o <<" ", "t", "o", " ">> \o B)

AsciiForms == {"produced", "a - b", "a-b%", "a - b%"}

EnDashForms == {"aENb", "a EN b", "aENb%", "a%ENb%"}

OtherForms == {"a%-b%", "aA-CIRCb", "a TO b"}

\* the texts of the forms for the integers of values
FormTexts(forms, values) ==
    { Written(Source(form, a, b), FormText(form, a, b)) :
          form \in forms, a \in values, b \in values }

\* parse_humidity_from_text is called with a text of one of the forms that
\* the producer and the tests write, for every pair of integers up to
\* MaxValue.
InitParse ==
    /\ TransportInit(DefaultConfig)
    /\ PageOff
    /\ ExtractionOff
    /\ HumidityOff
    /\ ppc = "start"
    /\ \E w \in FormTexts(AsciiForms, 0..MaxValue) :
           pSource = w.source /\ pText = w.text
    /\ pExpMin = NotGiven
    /\ pExpMax = NotGiven
    /\ pParsed = NotParsed
    /\ pValid = NotValidated
    /\ pExtracted = NoText

NextParse == ParseHumidityFromText

SpecParse == InitParse /\ [][NextParse]_vars

\* The texts of the text specification: every form with a handful of
\* integers (150 is no percentage), two texts of a form one after the
\* other, every text of up to MaxTextLen characters of a small alphabet,
\* and None as extract_humidity_for_day_offset returns it.
SmallValues == {0, 5, 60, 85, 100, 150}

SeveralParts ==
    { w.text.text : w \in FormTexts({"a-b%", "aENb", "aA-CIRCb", "a TO b"}, {5, 60}) }

SeveralTexts ==
    { Written(Source("several", 0, 0), StrOf(first \o <<" ">> \o second)) :
          first \in SeveralParts, second \in SeveralParts }

Alphabet == {"1", "2", " ", "%", "-", "U+2013", "x"}

AnyTexts ==
    { Written(Source("any", 0, 0), StrOf(text)) :
          text \in UNION { [1..n -> Alphabet] : n \in 0..MaxTextLen } }

AbsentText == Written(Source("absent", 0, 0), HumidityOfForecast(None))

Texts ==
    FormTexts(AsciiForms \cup EnDashForms \cup OtherForms, SmallValues)
        \cup SeveralTexts \cup AnyTexts \cup { AbsentText }

\* parse_humidity_from_text or validate_humidity_range is called with one
\* of Texts.
InitText ==
    /\ TransportInit(DefaultConfig)
    /\ PageOff
    /\ ExtractionOff
    /\ HumidityOff
    /\ ppc = "start"
    /\ \E w \in Texts : pSource = w.source /\ pText = w.text
    /\ pExpMin = NotGiven
    /\ pExpMax = NotGiven
    /\ pParsed = NotParsed
    /\ pValid = NotValidated
    /\ pExtracted = NoText

NextText ==
    \/ ParseHumidityFromText
    \/ ValidateAny
    \/ ExtractHumidityFromText

SpecText == InitText /\ [][NextText]_vars

----------------------------------------------------------------------------
(* Claims about the round trip and the written forms, checked under        *)
(* SpecParse.                                                              *)

\* C14: for every pair of integers min, max (0..MaxValue, which covers
\* 0..100), parse_humidity_from_text applied to the string that
\* extract_humidity_for_day_offset produces for an entry with those values
\* returns exactly (min, max).
C14_ProducerParserRoundTrip ==
    (ppc = "parsed" /\ pSource.form = "produced") =>
        /\ pText.kind = "str"
        /\ pParsed = Pair(pSource.a, pSource.b)

\* C14 witness: the entry with 0 and 100 gave "0 - 100", parsed to (0, 100).
C14_Witness ==
    /\ ppc = "parsed"
    /\ pSource = Source("produced", 0, 100)
    /\ pText = StrOf(<<"0", " ", "-", " ", "1", "0", "0">>)
    /\ pParsed = Pair(0, 100)

\* C15: for all integers a, b in 0..200 (0..MaxValue), the texts "<a> - <b>",
\* "<a>-<b>%" and "<a> - <b>%" parse to exactly (a, b).
C15_WrittenFormsParseExactly ==
    (ppc = "parsed" /\ pSource.form \in {"a - b", "a-b%", "a - b%"}) =>
        pParsed = Pair(pSource.a, pSource.b)

\* C15 witness: "200-7%" parsed to (200, 7).
C15_Witness ==
    /\ ppc = "parsed"
    /\ pSource = Source("a-b%", 200, 7)
    /\ pText = StrOf(<<"2", "0", "0", "-", "7", "%">>)
    /\ pParsed = Pair(200, 7)

----------------------------------------------------------------------------
(* Claims about parsing and validation, checked under SpecText.            *)

\* C16: a text whose two digit groups are separated by an en-dash (U+2013),
\* with or without whitespace and percent signs around it, parses to (a, b)
\* as the same text with a hyphen does.
C16_EnDashParsesLikeHyphen ==
    (ppc = "parsed" /\ pSource.form \in EnDashForms) =>
        pParsed = Pair(pSource.a, pSource.b)

\* The range pattern of the contract: digits, an optional percent sign and
\* optional whitespace, a hyphen or an en-dash, optional whitespace, digits.
ContractSeparators == {"-", "U+2013"}

DigitsIn(text, lo, hi) == lo <= hi /\ \A i \in lo..hi : IsDigit(text[i])

GapBeforeSeparator(text, lo, hi) ==
    /\ \A i \in lo..hi : text[i] \in {" ", "%"}
    /\ Cardinality({ i \in lo..hi : text[i] = "%" }) <= 1

GapAfterSeparator(text, lo, hi) == \A i \in lo..hi : text[i] = " "

\* an occurrence of the pattern begins at index s, with its first digit
\* group s..e, its separator at index c and its second digit group from d
OccurrenceAt(text, s, e, c, d) ==
    /\ DigitsIn(text, s, e)
    /\ GapBeforeSeparator(text, e + 1, c - 1)
    /\ text[c] \in ContractSeparators
    /\ GapAfterSeparator(text, c + 1, d - 1)
    /\ IsDigit(text[d])

OccurrenceStarts(text) ==
    { s \in 1..Len(text) :
        \E e \in s..Len(text), c \in (s + 1)..Len(text), d \in (s + 2)..Len(text) :
            e < c /\ c < d /\ OccurrenceAt(text, s, e, c, d) }

RECURSIVE NumberIn(_, _, _)
NumberIn(text, lo, hi) ==
    IF lo > hi THEN 0
    ELSE NumberIn(text, lo, hi - 1) * 10
           + (CHOOSE v \in 0..9 : DecimalText(v) = <<text[hi]>>)

\* the pair of the leftmost occurrence, each group as long as it can be;
\* none when there is no occurrence
ContractPair(text) ==
    IF OccurrenceStarts(text) = {} THEN NoPair
    ELSE LET n == Len(text)
             s == CHOOSE i \in OccurrenceStarts(text) :
                      \A j \in OccurrenceStarts(text) : i <= j
             at == CHOOSE q \in (s..n) \X ((s + 1)..n) \X ((s + 2)..n) :
                      /\ q[1] < q[2] /\ q[2] < q[3]
                      /\ OccurrenceAt(text, s, q[1], q[2], q[3])
             last == CHOOSE k \in at[3]..n :
                        /\ DigitsIn(text, at[3], k)
                        /\ (k = n \/ ~IsDigit(text[k + 1]))
         IN  Pair(NumberIn(text, s, at[1]), NumberIn(text, at[3], last))

\* C17: parse_humidity_from_text returns the pair of the first (leftmost)
\* occurrence of the range pattern when the text has several, and none when
\* the text has no occurrence of the pattern.
C17_LeftmostOccurrenceOrNone ==
    (ppc = "parsed" /\ pText.kind = "str") => pParsed = ContractPair(pText.text)

\* the four cases in which C18 says the validation fails
FailsValidation ==
    \/ pParsed.kind = "none"
    \/ /\ pParsed.kind = "pair"
       /\ \/ pParsed.min > pParsed.max
          \/ pExpMin.given /\ pParsed.min < pExpMin.value
          \/ pExpMax.given /\ pParsed.max > pExpMax.value

\* C18: for a text, validate_humidity_range returns false exactly when the
\* text does not parse, the parsed min > max, expectedMin is given and
\* min < expectedMin, or expectedMax is given and max > expectedMax, and true
\* in every other case; a bound equal to 0 counts as given.
C18_FalseExactlyInTheFourCases ==
    (ppc = "validated" /\ pText.kind = "str") =>
        /\ pValid.kind = "bool"
        /\ pParsed.kind \in {"pair", "none"}
        /\ pValid.value = ~FailsValidation

\* C18 witness: "5 - 60" with expectedMax 0 (given) was found invalid, for
\* no other reason than 60 > 0.
C18_Witness ==
    /\ ppc = "validated"
    /\ pText = StrOf(<<"5", " ", "-", " ", "6", "0">>)
    /\ pParsed = Pair(5, 60)
    /\ pExpMin = NotGiven
    /\ pExpMax = Expected(TRUE, 0)
    /\ pValid = ValidResult("bool", FALSE)

\* C19: whenever validate_humidity_range returns true, with or without
\* expected bounds, the parsed pair satisfies 0 <= min <= max <= 100.
C19_ValidatedIsPercentageRange ==
    (ppc = "validated" /\ pValid = ValidResult("bool", TRUE)) =>
        /\ pParsed.kind = "pair"
        /\ 0 <= pParsed.min
        /\ pParsed.min <= pParsed.max
        /\ pParsed.max <= 100

\* C20: parse_humidity_from_text and validate_humidity_range never raise:
\* for every input, an absent text (None) included, each returns; and for
\* the absent text parse returns none and validate returns false.
C20_NeverRaiseOnMalformedInput ==
    /\ ppc = "parsed" =>
          /\ pParsed.kind \in {"pair", "none"}
          /\ pText.kind = "none" => pParsed = NoPair
    /\ ppc = "validated" =>
          /\ pValid.kind = "bool"
          /\ pText.kind = "none" => pValid = ValidResult("bool", FALSE)

\* C26: the hyphen and the en-dash are the only separators that
\* parse_humidity_from_text accepts: a text whose two digit groups have
\* another character between them (U+00E2, or the word "to"), and no hyphen
\* or en-dash, parses to none.
C26_OtherSeparatorsParseToNone ==
    (ppc = "parsed" /\ pSource.form \in {"aA-CIRCb", "a TO b"}) =>
        pParsed = NoPair

\* the two integers in a string "<digits>-<digits>%" that
\* extract_humidity_from_text returned
CapturedByPage(text) ==
    LET hyphen == CHOOSE i \in 1..Len(text) : text[i] = "-"
    IN  Pair(NumberIn(text, 1, hyphen - 1), NumberIn(text, hyphen + 1, Len(text) - 1))

\* C21: the parsing contract is the same on both sides: for every text,
\* parse_humidity_from_text of the client finds a range if and only if
\* extract_humidity_from_text of the page finds one, and both capture the
\* same two integers.
C21_ClientAndPageParseAlike ==
    (ppc = "extracted" /\ pText.kind = "str") =>
        /\ pParsed.kind = "pair" <=> pExtracted.kind = "str"
        /\ (pParsed.kind = "pair" /\ pExtracted.kind = "str")
              => pParsed = CapturedByPage(pExtracted.text)

----------------------------------------------------------------------------
(* The claim about termination, checked under SpecTerminate.               *)

\* the three ways in which the claim lets a call end
EndedAsClaimed ==
    \/ /\ result.kind = "json"
       /\ final.kind = "ok"
       /\ result.value = final.body
    \/ /\ result.kind = "error"
       /\ result.exc \in {"HTTPError", "JSONDecodeError", "ChunkedEncodingError",
                          "MissingSchema"}
    \/ /\ result.kind = "error"
       /\ result.exc = "RetryError"
       /\ uTotal = 0
    \/ /\ result.kind = "error"
       /\ result.exc = "tenacity.RetryError"
       /\ tAttempt = stop_after_attempt

\* C24: every request call eventually terminates, whatever the server and
\* the network answer: a running call leads to a finished one, which ended
\* by returning the JSON of a successful attempt, by a failure that is not
\* retried, or by the exhaustion of the retries, after a bounded number of
\* HTTP attempts.
C24_EveryCallTerminates ==
    /\ (pc \in {"body", "send"}) ~> (pc = "done")
    /\ [](pc = "done" => EndedAsClaimed)
    /\ [](httpAttempts <= stop_after_attempt * (cfg.max_retries + 1))

\* C24 witness: a call ended with tenacity's RetryError after 3 runs of the
\* body, each with 1 + 3 HTTP attempts that timed out.
C24_Witness ==
    /\ pc = "done"
    /\ cfg.max_retries = 3
    /\ bodyCalls = 3
    /\ httpAttempts = 12
    /\ hist = "net"
    /\ result.exc = "tenacity.RetryError"

----------------------------------------------------------------------------
(* Claims about the session, checked under SpecLifecycle.                  *)

\* the calls of close() that by made
ClosesBy(by) == { i \in 1..Len(lCloses) : lCloses[i].by = by }

\* C22: when the client is used as a context manager, leaving the scope
\* closes the session exactly once, whether the body ended normally or
\* raised; the exception of the body still reaches the caller; and close()
\* itself never raises.
C22_LeavingTheScopeClosesOnce ==
    /\ lScope = "left" =>
          /\ Cardinality(ClosesBy("__exit__")) = 1
          /\ lPropagated = lBodyExc
    /\ \A i \in 1..Len(lCloses) : lCloses[i].raised = ""

\* C22 witness: the body raised while session.close() failed as well; the
\* session was closed once, and the exception of the body came out.
C22_Witness ==
    /\ lScope = "left"
    /\ lBodyExc = "AssertionError"
    /\ lPropagated = "AssertionError"
    /\ lCloses = <<CloseCall("__exit__", "OSError")>>
    /\ pc = "done"

\* C23: a client owns exactly one session for its whole life: after any
\* sequence of requests, retries and failures the session in use is the
\* one made at construction, no request or retry makes another, and the
\* session is closed by a call of close() only (a test's, or __exit__'s).
C23_OneSessionForLife ==
    /\ lSessions = 1
    /\ lSession = 1
    /\ lUsed \in {0, 1}
    /\ pc \in {"send", "done"} => lUsed = 1
    /\ \A i \in 1..Len(lCloses) : lCloses[i].by \in {"close", "__exit__"}
    /\ (lScope \in {"constructed", "fixture", "torndown"} /\ ClosesBy("close") = {})
          => lCloses = <<>>

\* C23 witness: a call went through three runs of the body, each with a
\* retry of urllib3, and the session is still the first one, not closed.
C23_Witness ==
    /\ pc = "done"
    /\ bodyCalls = 3
    /\ httpAttempts = 6
    /\ result.exc = "tenacity.RetryError"
    /\ lUsed = 1
    /\ lSessions = 1
    /\ lCloses = <<>>

\* C25: when the test session ends, the teardown of the api_client fixture
\* closes the session of the client it made.
C25_FixtureTeardownCloses ==
    lScope = "torndown" => lCloses /= <<>>

----------------------------------------------------------------------------
(* The page objects: find_element_with_retry and scroll_to_element of      *)
(* BasePage, get_forecast_by_day_offset of NineDayForecastPage.            *)

\* the elements a wait of the driver can give
Elements == {"e1", "e2"}

Found(element) == PageResult("element", element)

Raise(exc) == PageResult("raise", exc)

ReturnNone == PageResult("none", "")

\* What a wait of WaitHelper ends in: an element, TimeoutException
\* (re-raised by wait_helper.py, lines 32-34 and 45-47), or another
\* exception of the driver.
WaitOutcomes ==
    { Found(e) : e \in Elements }
        \cup { Raise(exc) : exc \in {"TimeoutException", "StaleElementReferenceException",
                                     "WebDriverException"} }

\* what a call of the driver that returns no element ends in
DriverOutcomes == {PageResult("ok", ""), Raise("WebDriverException")}

\* find_element(locator, timeout, raise_exception), lines 29-48, when
\* wait_for_element_present ends in outcome
FindElement(outcome, raise_exception) ==
    IF outcome.kind = "element" THEN outcome
    ELSE IF raise_exception THEN outcome
    ELSE ReturnNone

\* is_element_visible(locator, timeout), lines 182-194, when
\* wait_for_element_visible ends in outcome: every exception gives False
IsElementVisible(outcome) == outcome.kind = "element"

\* a call that a method made, in the iteration attempt, and how it ended
LogEntry(call, attempt, outcome) == [call |-> call, attempt |-> attempt, outcome |-> outcome]

\* the except clauses of find_element_with_retry, lines 76 and 82
Retried(exc) == exc \in {"StaleElementReferenceException", "TimeoutException"}

\* Mutant: "if attempt == retries: raise"
IsLastAttemptOffByOne(attempt, retries) == attempt = retries

\* "if attempt == retries - 1", lines 80 and 83
IsLastAttempt(attempt, retries) == attempt = retries - 1

\* find_element_with_retry(locator, retries) is called
FindElementWithRetry(retries) ==
    /\ bpc = "start"
    /\ bMethod' = "find_element_with_retry"
    /\ bArg' = retries
    /\ bAttempt' = 0
    /\ bpc' = "loop"
    /\ UNCHANGED <<bLog, bItems, bResult>>
    /\ UNCHANGED <<tvars, xvars, hvars, pvars, lvars>>

\* One iteration of "for attempt in range(retries)", lines 73-85: the call
\* of find_element ends in outcome.
RetryAttempt(outcome) ==
    /\ bMethod = "find_element_with_retry"
    /\ bpc = "loop"
    /\ bAttempt < bArg
    /\ bLog' = Append(bLog, LogEntry("find_element", bAttempt, outcome))
    /\ LET got == FindElement(outcome, TRUE)
       IN  IF got.kind = "raise" /\ Retried(got.value)
                /\ ~IsLastAttempt(bAttempt, bArg)
           THEN /\ bAttempt' = bAttempt + 1
                /\ UNCHANGED <<bpc, bResult>>
           ELSE /\ bResult' = got
                /\ bpc' = "done"
                /\ UNCHANGED bAttempt
    /\ UNCHANGED <<bMethod, bArg, bItems>>
    /\ UNCHANGED <<tvars, xvars, hvars, pvars, lvars>>

\* range(retries) is used up: "return None", line 87
RetryLoopEnds ==
    /\ bMethod = "find_element_with_retry"
    /\ bpc = "loop"
    /\ bAttempt >= bArg
    /\ bResult' = ReturnNone
    /\ bpc' = "done"
    /\ UNCHANGED <<bMethod, bArg, bAttempt, bLog, bItems>>
    /\ UNCHANGED <<tvars, xvars, hvars, pvars, lvars>>

\* Mutant: "except TimeoutException" in scroll_to_element
ScrollCatchesTimeout(exc) == exc = "TimeoutException"

\* "except Exception" of scroll_to_element, line 253
ScrollCatches(exc) == TRUE

\* scroll_to_element(locator, max_swipes) is called
ScrollToElement(max_swipes) ==
    /\ bpc = "start"
    /\ bMethod' = "scroll_to_element"
    /\ bArg' = max_swipes
    /\ bAttempt' = 0
    /\ bpc' = "loop"
    /\ UNCHANGED <<bLog, bItems, bResult>>
    /\ UNCHANGED <<tvars, xvars, hvars, pvars, lvars>>

\* what scroll_to_element does with a call inside its try that ended in
\* outcome (an exception): the next iteration when it is caught
ScrollAfterRaise(outcome) ==
    IF ScrollCatches(outcome.value)
    THEN /\ bAttempt' = bAttempt + 1
         /\ bpc' = "loop"
         /\ UNCHANGED bResult
    ELSE /\ bResult' = outcome
         /\ bpc' = "done"
         /\ UNCHANGED bAttempt

\* An iteration of "for attempt in range(max_swipes)" begins, line 242:
\* is_element_visible(locator, timeout=2), whose wait ends in outcome.
CheckVisible(outcome) ==
    /\ bMethod = "scroll_to_element"
    /\ bpc = "loop"
    /\ bAttempt < bArg
    /\ bLog' = Append(bLog, LogEntry("is_element_visible", bAttempt, outcome))
    /\ bpc' = IF IsElementVisible(outcome) THEN "visible" ELSE "hidden"
    /\ UNCHANGED <<bMethod, bArg, bAttempt, bItems, bResult>>
    /\ UNCHANGED <<tvars, xvars, hvars, pvars, lvars>>

\* "return self.find_element(locator)", line 243, whose wait ends in
\* outcome: the element is returned, or the exception is caught on line 253
FindVisible(outcome) ==
    /\ bMethod = "scroll_to_element"
    /\ bpc = "visible"
    /\ bLog' = Append(bLog, LogEntry("find_element", bAttempt, outcome))
    /\ LET got == FindElement(outcome, TRUE)
       IN  IF got.kind = "raise"
           THEN ScrollAfterRaise(got)
           ELSE /\ bResult' = got
                /\ bpc' = "done"
                /\ UNCHANGED bAttempt
    /\ UNCHANGED <<bMethod, bArg, bItems>>
    /\ UNCHANGED <<tvars, xvars, hvars, pvars, lvars>>

\* The element is not visible, lines 246-251: get_window_size ends in size,
\* and when it returned, swipe is called and ends in swiped (swipe re-raises
\* what driver.swipe raised, lines 231-233).
SwipeUp(size, swiped) ==
    /\ bMethod = "scroll_to_element"
    /\ bpc = "hidden"
    /\ IF size.kind = "raise"
       THEN /\ bLog' = Append(bLog, LogEntry("get_window_size", bAttempt, size))
            /\ ScrollAfterRaise(size)
       ELSE /\ bLog' = Append(bLog, LogEntry("swipe", bAttempt, swiped))
            /\ IF swiped.kind = "raise"
               THEN ScrollAfterRaise(swiped)
               ELSE /\ bAttempt' = bAttempt + 1
                    /\ bpc' = "loop"
                    /\ UNCHANGED bResult
    /\ UNCHANGED <<bMethod, bArg, bItems>>
    /\ UNCHANGED <<tvars, xvars, hvars, pvars, lvars>>

\* range(max_swipes) is used up: "return None", lines 256-257
ScrollLoopEnds ==
    /\ bMethod = "scroll_to_element"
    /\ bpc = "loop"
    /\ bAttempt >= bArg
    /\ bResult' = ReturnNone
    /\ bpc' = "done"
    /\ UNCHANGED <<bMethod, bArg, bAttempt, bLog, bItems>>
    /\ UNCHANGED <<tvars, xvars, hvars, pvars, lvars>>

\* A forecast item of the screen: its text, and whether reading the text
\* of the element raises (the element went stale).
Item(text, stale) == [text |-> text, stale |-> stale]

ItemTexts == <<"day 1", "day 2", "day 3", "day 4">>

\* the lists that get_all_forecast_items returns: the first n items of the
\* screen, each readable or stale
ItemLists ==
    UNION { { [i \in 1..n |-> Item(ItemTexts[i], stale[i])] : stale \in [1..n -> BOOLEAN] } :
              n \in 0..MaxItems }

\* forecast_items[day_offset] of Python, line 208: an index below zero
\* counts from the end of the list, and IndexError is raised outside the list
ListIndex(items, index) ==
    IF index >= 0
    THEN IF index < Len(items) THEN PageResult("item", items[index + 1])
         ELSE Raise("IndexError")
    ELSE IF 0 - index <= Len(items) THEN PageResult("item", items[Len(items) + index + 1])
         ELSE Raise("IndexError")

\* "if day_offset >= len(forecast_items)", line 204
OffsetBeyondList(day_offset, items) == day_offset >= Len(items)

\* _extract_forecast_data(element), lines 220-265: the data made of the
\* text of the element; when element.text raises, the except clause reads
\* element.text again (line 265), and that raises out of the method
ExtractForecastData(item) ==
    IF item.stale THEN Raise("StaleElementReferenceException")
    ELSE PageResult("data", item.text)

\* the body of get_forecast_by_day_offset inside its try, lines 202-214
ForecastByDayOffset(day_offset, items) ==
    IF OffsetBeyondList(day_offset, items) THEN ReturnNone
    ELSE LET item == ListIndex(items, day_offset)
         IN  IF item.kind = "raise" THEN item
             ELSE ExtractForecastData(item.value)

\* get_forecast_by_day_offset(day_offset), lines 190-218, when
\* get_all_forecast_items returns items (line 202): "except Exception"
\* returns None
GetForecastByDayOffset(day_offset, items) ==
    /\ bpc = "start"
    /\ bMethod' = "get_forecast_by_day_offset"
    /\ bArg' = day_offset
    /\ bItems' = items
    /\ bResult' = LET got == ForecastByDayOffset(day_offset, items)
                  IN  IF got.kind = "raise" THEN ReturnNone ELSE got
    /\ bpc' = "done"
    /\ UNCHANGED <<bAttempt, bLog>>
    /\ UNCHANGED <<tvars, xvars, hvars, pvars, lvars>>

FindElementWithRetryAny == \E retries \in 0..MaxLoops : FindElementWithRetry(retries)

RetryAttemptAny == \E outcome \in WaitOutcomes : RetryAttempt(outcome)

ScrollToElementAny == \E max_swipes \in 0..MaxLoops : ScrollToElement(max_swipes)

CheckVisibleAny == \E outcome \in WaitOutcomes : CheckVisible(outcome)

FindVisibleAny == \E outcome \in WaitOutcomes : FindVisible(outcome)

SwipeUpAny == \E size \in DriverOutcomes, swiped \in DriverOutcomes : SwipeUp(size, swiped)

GetForecastByDayOffsetAny ==
    \E day_offset \in (0 - (MaxItems + 1))..(MaxItems + 1), items \in ItemLists :
        GetForecastByDayOffset(day_offset, items)

\* a page object, no method called yet
InitPage ==
    /\ TransportInit(DefaultConfig)
    /\ ExtractionOff
    /\ HumidityOff
    /\ TextOff
    /\ bMethod = ""
    /\ bpc = "start"
    /\ bArg = 0
    /\ bAttempt = 0
    /\ bLog = <<>>
    /\ bItems = <<>>
    /\ bResult = NoPageResult

\* the steps of a running find_element_with_retry or scroll_to_element
PageStep ==
    \/ RetryAttemptAny
    \/ RetryLoopEnds
    \/ CheckVisibleAny
    \/ FindVisibleAny
    \/ SwipeUpAny
    \/ ScrollLoopEnds

NextPage ==
    \/ FindElementWithRetryAny
    \/ ScrollToElementAny
    \/ GetForecastByDayOffsetAny
    \/ PageStep

SpecPage == InitPage /\ [][NextPage]_vars

\* The page object whose running method takes its steps: every wait of
\* WaitHelper has a timeout (wait_helper.py, line 17) and the calls are
\* synchronous.
SpecPageFair == SpecPage /\ WF_vars(PageStep)

----------------------------------------------------------------------------
(* Claims about the page objects, checked under SpecPage and SpecPageFair. *)

\* the calls of the log that are calls of call
CallsOf(call) == { i \in 1..Len(bLog) : bLog[i].call = call }

\* a stale-element or a timeout failure
StaleOrTimeout(outcome) ==
    /\ outcome.kind = "raise"
    /\ outcome.value \in {"StaleElementReferenceException", "TimeoutException"}

\* C28: find_element_with_retry(locator, retries) calls find_element at
\* most retries times; it returns the element of the first attempt that
\* succeeds; a stale-element or timeout failure is retried unless it
\* happened on the last attempt, when it is re-raised; any other failure
\* propagates on the attempt where it occurs; with retries = 0 none is
\* returned without any attempt.
C28_RetryUntilFoundOrLastAttempt ==
    bMethod = "find_element_with_retry" =>
        /\ Len(bLog) <= bArg
        /\ \A i \in 1..Len(bLog) : bLog[i].call = "find_element" /\ bLog[i].attempt = i - 1
        /\ \A i \in 1..(Len(bLog) - 1) : StaleOrTimeout(bLog[i].outcome)
        /\ bpc = "done" =>
              IF bLog = <<>> THEN bArg = 0 /\ bResult.kind = "none"
              ELSE /\ bResult = bLog[Len(bLog)].outcome
                   /\ StaleOrTimeout(bResult) => Len(bLog) = bArg
        /\ (bpc = "loop" /\ bLog /= <<>>) =>
              /\ StaleOrTimeout(bLog[Len(bLog)].outcome)
              /\ Len(bLog) < bArg

\* C28 witness: with retries = 3 the first attempt found the element stale,
\* the second timed out, the third gave the element e2, which was returned.
C28_Witness ==
    /\ bMethod = "find_element_with_retry"
    /\ bpc = "done"
    /\ bArg = 3
    /\ bLog = <<LogEntry("find_element", 0, Raise("StaleElementReferenceException")),
                LogEntry("find_element", 1, Raise("TimeoutException")),
                LogEntry("find_element", 2, Found("e2"))>>
    /\ bResult = Found("e2")

\* the element was visible in iteration attempt
VisibleIn(attempt) ==
    \E i \in CallsOf("is_element_visible") :
        bLog[i].attempt = attempt /\ bLog[i].outcome.kind = "element"

\* what holds of scroll_to_element in every state
ScrollsAsClaimed ==
    bMethod = "scroll_to_element" =>
        /\ Cardinality(CallsOf("swipe")) <= bArg
        /\ \A i \in CallsOf("swipe") \cup CallsOf("get_window_size") :
              ~VisibleIn(bLog[i].attempt)
        /\ \A i \in CallsOf("find_element") :
              /\ VisibleIn(bLog[i].attempt)
              /\ bLog[i].outcome.kind = "element" =>
                    /\ i = Len(bLog)
                    /\ bpc = "done"
                    /\ bResult = bLog[i].outcome
        /\ bpc = "done" =>
              /\ bResult.kind \in {"element", "none"}
              /\ bResult.kind = "element" =>
                    /\ bLog /= <<>>
                    /\ bLog[Len(bLog)] = LogEntry("find_element", bAttempt, bResult)
              /\ bResult.kind = "none" =>
                    /\ bAttempt = bArg
                    /\ \A a \in 0..(bArg - 1) :
                          \E i \in CallsOf("is_element_visible") : bLog[i].attempt = a

\* C29: scroll_to_element(locator, max_swipes) always terminates and never
\* raises: it swipes at most max_swipes times, never in an iteration where
\* the element is visible, returns the element as soon as it is visible
\* and found, and returns none when it was not found in max_swipes
\* iterations, also when visibility checks, swipes or lookups fail.
C29_ScrollTerminatesWithoutRaising ==
    /\ []ScrollsAsClaimed
    /\ (bMethod = "scroll_to_element" /\ bpc /= "done") ~> (bpc = "done")

\* C29 witness: with max_swipes = 3 the element was hidden and the swipe
\* failed, then it was visible but its lookup timed out, then it was
\* visible and found, and e1 was returned after one swipe.
C29_Witness ==
    /\ bMethod = "scroll_to_element"
    /\ bpc = "done"
    /\ bArg = 3
    /\ bLog = <<LogEntry("is_element_visible", 0, Raise("TimeoutException")),
                LogEntry("swipe", 0, Raise("WebDriverException")),
                LogEntry("is_element_visible", 1, Found("e1")),
                LogEntry("find_element", 1, Raise("TimeoutException")),
                LogEntry("is_element_visible", 2, Found("e1")),
                LogEntry("find_element", 2, Found("e1"))>>
    /\ bResult = Found("e1")

\* C30: get_forecast_by_day_offset(day_offset) returns data only from the
\* item at position day_offset counted from the first item; for every
\* day_offset outside 0 .. (number of items - 1), negative offsets
\* included, it returns none; and it never raises.
C30_DataOnlyFromItemAtOffset ==
    (bMethod = "get_forecast_by_day_offset" /\ bpc = "done") =>
        /\ bResult.kind \in {"data", "none"}
        /\ IF 0 <= bArg /\ bArg < Len(bItems)
           THEN bResult.kind = "data" => bResult.value = bItems[bArg + 1].text
           ELSE bResult.kind = "none"

====
